---- MODULE Spec2Model ----
(***************************************************************************)
(* Racing portal (src/server.js): the whitelisted bulk update of           *)
(* horse_profiles inside one storage transaction, and the race-analytics   *)
(* joins of racecard_entries against race_combo_scores.                    *)
(*                                                                         *)
(* Strings are sequences of one-character strings, so that truthiness,     *)
(* parseInt, TRIM and collation are computed and not assumed.              *)
(***************************************************************************)
EXTENDS Integers, Sequences, FiniteSets, TLC

VARIABLES
  pool,       \* "undefined" until mysql.createPool has returned, then "ready"
  now,        \* the storage server's wall clock, read by NOW()
  horses,     \* horse_profiles as committed: horse_id -> row
  pc,         \* position of the bulk-update handler: "idle", "loop", "rollback"
  caller,     \* req.session.user of the bulk-update request (NoUser when absent)
  items,      \* the items of req.body.items the for-loop has visited so far
  work,       \* horse_profiles as seen inside the open transaction
  updated,    \* the handler's local counter `updated`
  ran,        \* indexes of the items whose UPDATE statement has returned
  pre,        \* horse_profiles as committed when the request arrived
  conn,       \* the request's pooled connection: "none", "held", "released", "leaked"
  fault,      \* the call of the request that threw: "none", "connect", "begin", "query", "commit"
  resp,       \* the last HTTP answer of the bulk update: [status, updated]
  calls,      \* the pool and connection calls the bulk-update request has issued, in order
  entries,    \* racecard_entries
  scores,     \* race_combo_scores
  analysis,   \* race_analysis_scores
  races,      \* racecard_races
  sreq,       \* the last stats request: [op, date, venue, race_no]
  sresp,      \* its answer: [status, rows, distance_m, metric_code]
  squeries,   \* the queries the stats request has issued, in order: "race", "join"
  sfault,     \* the call of the stats request that threw: "none", "connect", "race", "join"
  sconn,      \* the stats request's pooled connection: "none", "released"
  sessions,   \* express-session store: session id -> req.session.user (NoUser when absent)
  hit,        \* the last request through the middleware chain and where it ended
  reqs,       \* concurrent bulk-update requests: request id -> handler state
  locks,      \* horse_profiles row locks: horse_id -> the request whose transaction holds it, or 0
  out,        \* connections of the pool that are checked out
  commitLog   \* the requests whose conn.commit() has returned, in that order

bulkVars == <<pool, now, horses, pc, caller, items, work, updated, ran, pre, conn, fault, resp, calls>>
tableVars == <<entries, scores, analysis, races>>
statsVars == <<sreq, sresp, squeries, sfault, sconn>>
handlerVars == <<pc, caller, items, work, updated, ran, pre, conn, fault, resp, calls>>
gateVars == <<sessions, hit>>
concVars == <<reqs, locks, out, commitLog>>
vars == <<bulkVars, tableVars, statsVars, gateVars, concVars>>

(***************************************************************************)
(* Bounds of the model.                                                    *)
(***************************************************************************)
MaxBatch == 2       \* longest items array
MaxClock == 1       \* last tick of the wall clock

(***************************************************************************)
(* JavaScript values carried by a JSON body.                               *)
(***************************************************************************)
Undefined == [type |-> "undefined"]
JsNull == [type |-> "null"]
Str(s) == [type |-> "string", s |-> s]
Num(n) == [type |-> "number", n |-> n]

Digits == <<"0", "1", "2", "3", "4", "5", "6", "7", "8", "9">>

IsDigit(c) == \E d \in 1..10 : Digits[d] = c

DigitVal(c) == (CHOOSE d \in 1..10 : Digits[d] = c) - 1

\* !v is false
Truthy(v) ==
  CASE v.type = "undefined" -> FALSE
    [] v.type = "null" -> FALSE
    [] v.type = "string" -> Len(v.s) > 0
    [] v.type = "number" -> v.n # 0

RECURSIVE SkipSpaces(_)
SkipSpaces(s) == IF Len(s) > 0 /\ Head(s) = " " THEN SkipSpaces(Tail(s)) ELSE s

RECURSIVE DigitPrefix(_, _)
\* value of the longest run of digits at the head of s, continuing from acc
DigitPrefix(s, acc) ==
  IF Len(s) > 0 /\ IsDigit(Head(s))
  THEN DigitPrefix(Tail(s), 10 * acc + DigitVal(Head(s)))
  ELSE acc

\* mutant: only a text made of digits alone is taken as a number
ParseIntWhole(v) ==
  IF v.type = "number" THEN v.n
  ELSE IF v.type # "string" THEN 0
  ELSE IF Len(v.s) > 0 /\ \A i \in 1..Len(v.s) : IsDigit(v.s[i]) THEN DigitPrefix(v.s, 0)
  ELSE 0

\* parseInt(v, 10) || 0 : NaN (no digit after the optional sign) and 0 both give 0
ParseIntOr0(v) ==
  IF v.type = "number" THEN v.n
  ELSE IF v.type # "string" THEN 0
  ELSE LET t == SkipSpaces(v.s)
           neg == Len(t) > 0 /\ Head(t) = "-"
           u == IF Len(t) > 0 /\ Head(t) \in {"-", "+"} THEN Tail(t) ELSE t
       IN IF Len(u) = 0 \/ ~IsDigit(Head(u)) THEN 0
          ELSE IF neg THEN 0 - DigitPrefix(u, 0) ELSE DigitPrefix(u, 0)

(***************************************************************************)
(* horse_profiles and the edits of a batch.                                *)
(***************************************************************************)
H1 == <<"H", "1">>
H2 == <<"H", "2">>
NOPE == <<"N", "O", "P", "E">>

NoUser == [username |-> "", role |-> ""]

Callers ==
  { NoUser,
    [username |-> "admin", role |-> "admin"],
    [username |-> "admin", role |-> "viewer"],
    [username |-> "bob", role |-> "admin"],
    [username |-> "bob", role |-> "viewer"] }

HorsesInit ==
  (H1 :> [owner |-> <<"P">>, trainer_id |-> <<"T", "1">>, current_rating |-> 60,
          updated_at |-> 0, name_chi |-> <<"X">>])
  @@ (H2 :> [owner |-> <<"Q">>, trainer_id |-> <<"T", "2">>, current_rating |-> 70,
             updated_at |-> 0, name_chi |-> <<"Y">>])

Edit(id, owner, trainer, rating, name) ==
  [horse_id |-> id, owner |-> owner, trainer_id |-> trainer,
   current_rating |-> rating, name_chi |-> name]

\* the items a request body may carry
EditPool ==
  { Edit(Str(H1), Str(<<"A">>), Undefined, Undefined, Undefined),
    Edit(Str(H1), Str(<<"B">>), Undefined, Undefined, Undefined),
    Edit(Str(H2), Undefined, Undefined, Str(<<"8", "5", "x">>), Str(<<"Z">>)),
    Edit(Str(H1), Num(7), Str(<<"T", "9">>), JsNull, Undefined),
    Edit(Str(NOPE), Str(<<"A">>), Undefined, Undefined, Undefined),
    Edit(Undefined, Str(<<"A">>), Undefined, Num(90), Undefined),
    Edit(Str(H2), Num(7), JsNull, Undefined, Str(<<"Z">>)) }

Whitelist == {"owner", "trainer_id", "current_rating"}

\* the columns the handler puts into the SET clause for one item
FieldsOf(it) ==
  {f \in Whitelist :
     CASE f = "owner" -> it.owner.type = "string"
       [] f = "trainer_id" -> it.trainer_id.type = "string"
       [] f = "current_rating" -> it.current_rating.type \notin {"undefined", "null"}}

\* mutant: the horse_id test of the skip is forgotten
SkippedFieldsOnly(it) == FieldsOf(it) = {}

\* if (!fields.length || !it.horse_id) continue;
Skipped(it) == FieldsOf(it) = {} \/ ~Truthy(it.horse_id)

\* WHERE horse_id=?
Matches(h, it) == it.horse_id.type = "string" /\ it.horse_id.s = h

\* mutant: every key of the edit is assigned, name_chi included
ApplyUpdateAnyKey(tbl, it, t) ==
  [h \in DOMAIN tbl |->
     IF Matches(h, it)
     THEN [tbl[h] EXCEPT
             !.owner = IF "owner" \in FieldsOf(it) THEN it.owner.s ELSE @,
             !.trainer_id = IF "trainer_id" \in FieldsOf(it) THEN it.trainer_id.s ELSE @,
             !.current_rating = IF "current_rating" \in FieldsOf(it)
                                THEN ParseIntOr0(it.current_rating) ELSE @,
             !.name_chi = IF it.name_chi.type = "string" THEN it.name_chi.s ELSE @,
             !.updated_at = t]
     ELSE tbl[h]]

\* mutant: a null current_rating is parsed and assigned like any other value
ApplyUpdateNullAsZero(tbl, it, t) ==
  [h \in DOMAIN tbl |->
     IF Matches(h, it)
     THEN [tbl[h] EXCEPT
             !.owner = IF "owner" \in FieldsOf(it) THEN it.owner.s ELSE @,
             !.trainer_id = IF "trainer_id" \in FieldsOf(it) THEN it.trainer_id.s ELSE @,
             !.current_rating = IF it.current_rating.type # "undefined"
                                THEN ParseIntOr0(it.current_rating) ELSE @,
             !.updated_at = t]
     ELSE tbl[h]]

\* mutant: the statement leaves updated_at alone
ApplyUpdateNoStamp(tbl, it, t) ==
  [h \in DOMAIN tbl |->
     IF Matches(h, it)
     THEN [tbl[h] EXCEPT
             !.owner = IF "owner" \in FieldsOf(it) THEN it.owner.s ELSE @,
             !.trainer_id = IF "trainer_id" \in FieldsOf(it) THEN it.trainer_id.s ELSE @,
             !.current_rating = IF "current_rating" \in FieldsOf(it)
                                THEN ParseIntOr0(it.current_rating) ELSE @]
     ELSE tbl[h]]

\* UPDATE horse_profiles SET <fields>, updated_at=NOW() WHERE horse_id=?
ApplyUpdate(tbl, it, t) ==
  [h \in DOMAIN tbl |->
     IF Matches(h, it)
     THEN [tbl[h] EXCEPT
             !.owner = IF "owner" \in FieldsOf(it) THEN it.owner.s ELSE @,
             !.trainer_id = IF "trainer_id" \in FieldsOf(it) THEN it.trainer_id.s ELSE @,
             !.current_rating = IF "current_rating" \in FieldsOf(it)
                                THEN ParseIntOr0(it.current_rating) ELSE @,
             !.updated_at = t]
     ELSE tbl[h]]

\* mutant: every executed statement counts as one update
AffectedRowsPerStatement(tbl, it) == 1

\* mutant: only the rows the statement changed are counted
AffectedRowsChanged(tbl, it) ==
  Cardinality({h \in DOMAIN tbl : Matches(h, it) /\ ApplyUpdate(tbl, it, now)[h] # tbl[h]})

\* ret.affectedRows: the rows the WHERE clause matched
AffectedRows(tbl, it) == Cardinality({h \in DOMAIN tbl : Matches(h, it)})

\* if (req.session?.user?.username !== 'admin') return 403
IsAdmin(user) == user.username = "admin"

\* requireAuth: req.session && req.session.user
LoggedIn(user) == user # NoUser

\* mutant: the connection is released without the writes being committed
CommitDropsWrites(committed, w) == committed

\* conn.commit(): the transaction's writes become the committed table
CommitTx(committed, w) == w

\* mutant: the rollback leaves the transaction's writes in place
RollbackKeepsWrites(committed, w) == w

\* conn.rollback(): the transaction's writes are discarded
RollbackTx(committed, w) == committed

Answer(status, n) == [status |-> status, updated |-> n]

NoAnswer == Answer(0, 0)

(***************************************************************************)
(* Text as the storage compares it.                                        *)
(***************************************************************************)
Lowers == <<"a", "b", "c", "d", "e", "f", "g", "h", "i", "j", "k", "l", "m",
            "n", "o", "p", "q", "r", "s", "t", "u", "v", "w", "x", "y", "z">>

Uppers == <<"A", "B", "C", "D", "E", "F", "G", "H", "I", "J", "K", "L", "M",
            "N", "O", "P", "Q", "R", "S", "T", "U", "V", "W", "X", "Y", "Z">>

\* the sort order of the characters in use, case folded
Alphabet == <<" ", "_", "-">> \o Digits \o Uppers

Chars ==
  {Alphabet[i] : i \in 1..Len(Alphabet)} \cup {Lowers[i] : i \in 1..26} \cup {"%", "+", "/", "."}

\* the upper-case form of every character
FoldMap ==
  [c \in Chars |-> IF \E i \in 1..26 : Lowers[i] = c
                   THEN Uppers[CHOOSE i \in 1..26 : Lowers[i] = c]
                   ELSE c]

Fold(c) == FoldMap[c]

FoldStr(s) == [i \in 1..Len(s) |-> Fold(s[i])]

RECURSIVE RTrim(_)
RTrim(s) == IF Len(s) > 0 /\ s[Len(s)] = " " THEN RTrim(SubSeq(s, 1, Len(s) - 1)) ELSE s

\* TRIM(x): leading and trailing spaces removed
TrimStr(s) == RTrim(SkipSpaces(s))

\* a = b under the columns' own collation (the schema default of setup.sql,
\* utf8mb4_0900_ai_ci): case-insensitive, trailing spaces significant
ColumnEq(a, b) == FoldStr(a) = FoldStr(b)

\* a COLLATE utf8mb4_unicode_ci = b COLLATE utf8mb4_unicode_ci:
\* case-insensitive, trailing spaces ignored (a PAD SPACE collation)
CollEq(a, b) == FoldStr(RTrim(a)) = FoldStr(RTrim(b))

\* TRIM(a) COLLATE utf8mb4_unicode_ci = TRIM(b) COLLATE utf8mb4_unicode_ci
TrimCollEq(a, b) == CollEq(TrimStr(a), TrimStr(b))

RECURSIVE Like(_, _)
\* s LIKE p : % is any run of characters, _ is any one character
Like(s, p) ==
  IF Len(p) = 0 THEN Len(s) = 0
  ELSE IF Head(p) = "%" THEN \E k \in 0..Len(s) : Like(SubSeq(s, k + 1, Len(s)), Tail(p))
  ELSE IF Head(p) = "_" THEN Len(s) > 0 /\ Like(Tail(s), Tail(p))
  ELSE Len(s) > 0 /\ Fold(Head(s)) = Fold(Head(p)) /\ Like(Tail(s), Tail(p))

OrdMap == [c \in Chars |-> IF \E i \in 1..Len(Alphabet) : Alphabet[i] = Fold(c)
                           THEN CHOOSE i \in 1..Len(Alphabet) : Alphabet[i] = Fold(c)
                           ELSE 0]

CharOrd(c) == OrdMap[c]

RECURSIVE TextLess(_, _)
\* a sorts strictly before b
TextLess(a, b) ==
  IF Len(b) = 0 THEN FALSE
  ELSE IF Len(a) = 0 THEN TRUE
  ELSE IF CharOrd(Head(a)) # CharOrd(Head(b)) THEN CharOrd(Head(a)) < CharOrd(Head(b))
  ELSE TextLess(Tail(a), Tail(b))

RECURSIVE Decimal(_)
\* the decimal digits of a natural number
Decimal(n) == IF n < 10 THEN <<Digits[n + 1]>> ELSE Decimal(n \div 10) \o <<Digits[(n % 10) + 1]>>

SqlNull == -1                       \* NULL in an integer column
NaN == -2                           \* Number(x) of a text that is no number
NullText == <<"NULL">>              \* NULL in a text column

\* `${x}` for a number column read from a row
JsText(n) == IF n = SqlNull THEN <<"n", "u", "l", "l">> ELSE Decimal(n)

\* Number(v) for a query-string value
NumberOf(v) ==
  IF v.type # "string" THEN NaN
  ELSE LET t == TrimStr(v.s)
       IN IF Len(t) = 0 THEN 0
          ELSE IF \A i \in 1..Len(t) : IsDigit(t[i]) THEN DigitPrefix(t, 0)
          ELSE NaN

RECURSIVE SubsetsUpTo(_, _)
\* the subsets of U of at most k elements
SubsetsUpTo(U, k) ==
  IF k = 0 THEN {{}}
  ELSE LET smaller == SubsetsUpTo(U, k - 1)
       IN smaller \cup {s \cup {x} : s \in smaller, x \in U}

RECURSIVE SortedSeqs(_, _)
\* ORDER BY: every arrangement of S in which rank never decreases (rows of
\* equal rank come in any order)
SortedSeqs(S, rank) ==
  IF S = {} THEN {<<>>}
  ELSE LET firsts == {x \in S : \A y \in S : rank[x] <= rank[y]}
       IN UNION {{<<x>> \o t : t \in SortedSeqs(S \ {x}, rank)} : x \in firsts}

\* mutant: the least element is taken
SetLeast(S) == CHOOSE m \in S : \A x \in S : m <= x

SetMax(S) == CHOOSE m \in S : \A x \in S : x <= m

(***************************************************************************)
(* Race-analytics tables (filled by the upstream pipeline) and requests.   *)
(***************************************************************************)
ST == <<"S", "T">>
HV == <<"H", "V">>
XX == <<"X", "X">>                  \* a venue code that is neither ST nor HV
D1 == <<"2", "0", "2", "5", "-", "1", "1", "-", "2", "6">>
J1 == <<"J", "1">>
J2 == <<"J", "2">>

WEIGHT_A == <<"W", "E", "I", "G", "H", "T", "_", "A">>
WEIGHT_B == <<"W", "E", "I", "G", "H", "T", "_", "B">>
HORSE_DRAW_1_4 == <<"H", "O", "R", "S", "E", "_", "D", "R", "A", "W", "_", "1", "_", "4">>

\* the LIKE patterns of the handlers
LikeWeightBand == <<"W", "E", "I", "G", "H", "T", "_", "%">>
LikeWeight == <<"W", "E", "I", "G", "H", "T", "%">>
LikeHorseDraw == <<"H", "O", "R", "S", "E", "_", "D", "R", "A", "W", "_", "%">>

HORSE_DIST == <<"H", "O", "R", "S", "E", "_", "D", "I", "S", "T">>
JOCKEY_DIST == <<"J", "O", "C", "K", "E", "Y", "_", "D", "I", "S", "T">>

\* `HORSE_DIST_${venue}_${distance_m}` and `JOCKEY_DIST_${venue}_${distance_m}`
MetricCode(family, venue, distance_m) ==
  family \o <<"_">> \o venue \o <<"_">> \o JsText(distance_m)

EntryRow(no, id, jockey, scratched) ==
  [race_date |-> D1, race_no |-> 1, horse_no |-> no, horse_id |-> id,
   jockey_zh |-> jockey, scratched |-> scratched]

ScoreRow(id, code, runs) ==
  [race_date |-> D1, venue_code |-> ST, race_no |-> 1, horse_id |-> id,
   metric_code |-> code, runs |-> runs, win_cnt |-> 0]

\* a score row with its win count
ScoreRowWins(id, code, runs, wins) == [ScoreRow(id, code, runs) EXCEPT !.win_cnt = wins]

AnalysisRow(id, runs) ==
  [race_date |-> D1, venue_code |-> ST, race_no |-> 1, horse_id |-> id, horse_runs |-> runs]

RaceRow(distance_m) ==
  [race_date |-> D1, venue_code |-> ST, race_no |-> 1, distance_m |-> distance_m]

StatsReq(date, venue, race_no) == [date |-> date, venue |-> venue, race_no |-> race_no]

\* the query strings a stats request may carry
StatsRequests ==
  { StatsReq(Str(D1), Str(ST), Str(<<"1">>)),
    StatsReq(Str(D1), Str(HV), Str(<<"1">>)),
    StatsReq(Str(D1), Str(ST), Undefined),
    StatsReq(Str(D1), Str(ST), Str(<<"1", "3">>)),
    StatsReq(Str(D1), Str(XX), Str(<<"1">>)) }

\* mutant: only the date is required
MissingDateOnly(q) == ~Truthy(q.date)

\* if (!date || !venue || !race_no)
Missing(q) == ~Truthy(q.date) \/ ~Truthy(q.venue) \/ ~Truthy(q.race_no)

\* (e.scratched IS NULL OR e.scratched = 0)
NotScratched(e) == e.scratched = SqlNull \/ e.scratched = 0

\* WHERE rc.race_date = ? AND rc.venue_code = ? AND rc.race_no = ?
OfRace(r, q) ==
  /\ r.race_date = q.date.s
  /\ ColumnEq(r.venue_code, q.venue.s)
  /\ r.race_no = NumberOf(q.race_no)

\* FROM race_combo_scores rc JOIN racecard_entries e ON rc.race_date = e.race_date
\* AND rc.race_no = e.race_no AND rc.horse_id COLLATE ... = e.horse_id COLLATE ...
JoinOn(rc, e) ==
  /\ rc.race_date = e.race_date
  /\ rc.race_no = e.race_no
  /\ CollEq(rc.horse_id, e.horse_id)

\* the same join with TRIM(...) on both horse_id columns
JoinOnTrim(rc, e) ==
  /\ rc.race_date = e.race_date
  /\ rc.race_no = e.race_no
  /\ TrimCollEq(rc.horse_id, e.horse_id)

\* rows of /api/race/weight_stats before ORDER BY
WeightPairs(q) ==
  {p \in scores \X entries :
     /\ JoinOn(p[1], p[2])
     /\ OfRace(p[1], q)
     /\ Like(p[1].metric_code, LikeWeightBand)}

\* rows of /api/race/draw_stats before ORDER BY
DrawPairs(q) ==
  {p \in scores \X entries :
     /\ JoinOn(p[1], p[2])
     /\ OfRace(p[1], q)
     /\ Like(p[1].metric_code, LikeHorseDraw)
     /\ NotScratched(p[2])}

\* mutant: every horse-distance code of the horse matches, whatever its distance
DistancePairsAnyDistance(q, code) ==
  {p \in scores \X entries :
     /\ JoinOn(p[1], p[2])
     /\ OfRace(p[1], q)
     /\ Like(p[1].metric_code, HORSE_DIST \o <<"_", "%">>)
     /\ NotScratched(p[2])}

\* rows of /api/race/distance_stats before ORDER BY
DistancePairs(q, code) ==
  {p \in scores \X entries :
     /\ JoinOn(p[1], p[2])
     /\ OfRace(p[1], q)
     /\ ColumnEq(p[1].metric_code, code)
     /\ NotScratched(p[2])}

\* rows of /api/race/jockey_dist_stats before GROUP BY
JockeyPairs(q, code) ==
  {p \in scores \X entries :
     /\ JoinOnTrim(p[1], p[2])
     /\ OfRace(p[1], q)
     /\ ColumnEq(p[1].metric_code, code)
     /\ NotScratched(p[2])}

\* GROUP BY e.jockey_zh, rc.venue_code with MAX(...) over each group
JockeyGroups(q, code, distance_m) ==
  LET P == JockeyPairs(q, code)
      keys == {<<FoldStr(p[2].jockey_zh), FoldStr(p[1].venue_code)>> : p \in P}
      members(k) == {p \in P : <<FoldStr(p[2].jockey_zh), FoldStr(p[1].venue_code)>> = k}
  IN {[jockey_zh |-> (CHOOSE p \in members(k) : TRUE)[2].jockey_zh,
       venue |-> (CHOOSE p \in members(k) : TRUE)[1].venue_code,
       distance_m |-> distance_m,
       runs |-> SetMax({p[1].runs : p \in members(k)}),
       win_cnt |-> SetMax({p[1].win_cnt : p \in members(k)})] : k \in keys}

\* rows of /api/race/horse_stats before ORDER BY: race_analysis_scores joined
\* to racecard_entries, LEFT JOIN race_combo_scores on LIKE 'WEIGHT%'
HorseStatsRows(q) ==
  LET base == {p \in analysis \X entries :
                 /\ p[1].race_date = p[2].race_date
                 /\ p[1].race_no = p[2].race_no
                 /\ CollEq(p[1].horse_id, p[2].horse_id)
                 /\ OfRace(p[1], q)}
      weights(ra) == {w \in scores :
                        /\ w.race_date = ra.race_date
                        /\ ColumnEq(w.venue_code, ra.venue_code)
                        /\ w.race_no = ra.race_no
                        /\ ColumnEq(w.horse_id, ra.horse_id)
                        /\ Like(w.metric_code, LikeWeight)}
  IN UNION {IF weights(p[1]) = {}
            THEN {[horse_no |-> p[2].horse_no, starts |-> p[1].horse_runs,
                   metric_code |-> NullText, runs |-> SqlNull, src |-> p]}
            ELSE {[horse_no |-> p[2].horse_no, starts |-> p[1].horse_runs,
                   metric_code |-> w.metric_code, runs |-> w.runs, src |-> p]
                    : w \in weights(p[1])} : p \in base}

\* SELECT e.horse_no, rc.metric_code, rc.runs of one joined pair
PairRow(p) == [horse_no |-> p[2].horse_no, metric_code |-> p[1].metric_code, runs |-> p[1].runs]

\* mutant: the rows are not ordered
ByNothing(P) == [p \in P |-> 0]

\* ORDER BY e.horse_no ASC
ByHorseNo(P) == [p \in P |-> p[2].horse_no]

\* ORDER BY e.horse_no ASC, rc.metric_code ASC
ByHorseNoThenCode(P) ==
  [p \in P |-> Cardinality({o \in P :
                  \/ o[2].horse_no < p[2].horse_no
                  \/ /\ o[2].horse_no = p[2].horse_no
                     /\ TextLess(o[1].metric_code, p[1].metric_code)})]

\* ORDER BY e.jockey_zh
ByJockey(G) == [g \in G |-> Cardinality({o \in G : TextLess(o.jockey_zh, g.jockey_zh)})]

RowsOf(t) == [i \in 1..Len(t) |-> PairRow(t[i])]

\* SELECT distance_m FROM racecard_races WHERE ... LIMIT 1
RaceRows(q) == {r \in races : OfRace(r, q)}

StatsAnswer(status, rows, distance_m, code) ==
  [status |-> status, rows |-> rows, distance_m |-> distance_m, metric_code |-> code]

Failure(status) == StatsAnswer(status, <<>>, SqlNull, <<>>)

Listing(rows) == StatsAnswer(200, rows, SqlNull, <<>>)

NoStatsReq == [op |-> "none", q |-> StatsReq(Undefined, Undefined, Undefined)]

NoStatsResp == Failure(0)

HorseNos == {1, 2}

MaxRows == 3        \* most rows the pipeline has loaded, over the four tables

EntryUniverse ==
  {EntryRow(no, id, J1, sc) : no \in HorseNos, id \in {H1, H2}, sc \in {0, 1, SqlNull}}

ScoreUniverse ==
  {ScoreRow(id, code, IF id = H1 THEN 3 ELSE 5) :
     id \in {H1, H2},
     code \in {WEIGHT_A, WEIGHT_B, HORSE_DRAW_1_4,
               MetricCode(HORSE_DIST, ST, 1200), MetricCode(JOCKEY_DIST, ST, 1200)}}

AnalysisUniverse == {AnalysisRow(H1, 4), AnalysisRow(H2, 6)}

RaceUniverse == {RaceRow(1200)}

LoadedRows ==
  ({"entry"} \X EntryUniverse) \cup ({"score"} \X ScoreUniverse)
    \cup ({"analysis"} \X AnalysisUniverse) \cup ({"race"} \X RaceUniverse)

TableOf(L, name) == {r[2] : r \in {x \in L : x[1] = name}}

\* an entry is identified by (race_date, race_no, horse_no)
EntryKeysUnique(E) ==
  \A x, y \in E :
    (x.race_date = y.race_date /\ x.race_no = y.race_no /\ x.horse_no = y.horse_no) => x = y

BulkInit ==
  /\ pool = "undefined"
  /\ now = 0
  /\ horses = HorsesInit
  /\ pc = "idle"
  /\ caller = NoUser
  /\ items = <<>>
  /\ work = HorsesInit
  /\ updated = 0
  /\ ran = {}
  /\ pre = HorsesInit
  /\ conn = "none"
  /\ fault = "none"
  /\ resp = NoAnswer
  /\ calls = <<>>

\* no stats request has been received
StatsIdle ==
  /\ sreq = NoStatsReq
  /\ sresp = NoStatsResp
  /\ squeries = <<>>
  /\ sfault = "none"
  /\ sconn = "none"

SessionIds == {1, 2}

ReqIds == {1, 2}

\* no session holds a user and no request has come in
GateIdle ==
  /\ sessions = [s \in SessionIds |-> NoUser]
  /\ hit = [sid |-> 0, method |-> "", path |-> <<>>, user |-> NoUser,
            ends |-> "none", storage |-> FALSE]

\* a bulk-update request that has not arrived
IdleReq ==
  [pc |-> "idle", items |-> <<>>, w |-> HorsesInit, updated |-> 0,
   fault |-> "none", conn |-> "none", status |-> 0]

\* no concurrent request is in flight and every connection is in the pool
ConcIdle ==
  /\ reqs = [r \in ReqIds |-> IdleReq]
  /\ locks = [h \in DOMAIN HorsesInit |-> 0]
  /\ out = 0
  /\ commitLog = <<>>

Init ==
  /\ BulkInit
  /\ entries = {}
  /\ scores = {}
  /\ analysis = {}
  /\ races = {}
  /\ StatsIdle
  /\ GateIdle
  /\ ConcIdle

\* the server starts over tables the pipeline has loaded
InitStats ==
  /\ BulkInit
  /\ \E L \in SubsetsUpTo(LoadedRows, MaxRows) :
       /\ EntryKeysUnique(TableOf(L, "entry"))
       /\ entries = TableOf(L, "entry")
       /\ scores = TableOf(L, "score")
       /\ analysis = TableOf(L, "analysis")
       /\ races = TableOf(L, "race")
  /\ StatsIdle
  /\ GateIdle
  /\ ConcIdle

MaxEntries == 2     \* most rows of racecard_entries in the join tables
MaxScores == 2      \* most rows of race_combo_scores in the join tables

\* running entries of race 1
JoinEntries == {EntryRow(no, id, J1, 0) : no \in HorseNos, id \in {H1, H2}}

\* score rows of race 1 at ST: a weight band, and horse-distance codes of
\* this and of another venue and distance
JoinScores ==
  {ScoreRow(id, code, IF id = H1 THEN 3 ELSE 5) :
     id \in {H1, H2},
     code \in {MetricCode(HORSE_DIST, ST, 1200), MetricCode(HORSE_DIST, ST, 1201)}}
  \cup {ScoreRow(H1, WEIGHT_A, 3), ScoreRow(H1, MetricCode(HORSE_DIST, HV, 1200), 3)}

JoinRaces == {RaceRow(1200), RaceRow(1201)}

\* a race is identified by (race_date, venue_code, race_no)
RaceKeysUnique(R) ==
  \A x, y \in R :
    (x.race_date = y.race_date /\ x.venue_code = y.venue_code /\ x.race_no = y.race_no)
      => x = y

\* the server starts over a race card and the scores of its runners
InitJoin ==
  /\ BulkInit
  /\ entries \in {E \in SubsetsUpTo(JoinEntries, MaxEntries) : EntryKeysUnique(E)}
  /\ scores \in SubsetsUpTo(JoinScores, MaxScores)
  /\ analysis = {}
  /\ races \in {R \in SUBSET JoinRaces : RaceKeysUnique(R)}
  /\ StatsIdle
  /\ GateIdle
  /\ ConcIdle

\* the async start-up block: pool = await mysql.createPool(...)
CreatePool ==
  /\ pool = "undefined"
  /\ pool' = "ready"
  /\ UNCHANGED <<now, horses, pc, caller, items, work, updated, ran, pre, conn, fault, resp, calls>>
  /\ UNCHANGED <<tableVars, statsVars, gateVars, concVars>>

\* the wall clock advances
Tick ==
  /\ now < MaxClock
  /\ now' = now + 1
  /\ UNCHANGED <<pool, horses, pc, caller, items, work, updated, ran, pre, conn, fault, resp, calls>>
  /\ UNCHANGED <<tableVars, statsVars, gateVars, concVars>>

\* A request arrives and is answered before any connection is taken:
\* requireAuth redirects, the admin guard answers 403, an empty items array
\* answers {updated: 0}, pool.getConnection on a missing pool or a refused
\* connection lands in the outer catch.
BulkAnswerEarly(user, empty) ==
  /\ pc = "idle"
  /\ \/ /\ ~LoggedIn(user)
        /\ resp' = Answer(302, 0)
        /\ fault' = "none"
        /\ calls' = <<>>
     \/ /\ LoggedIn(user) /\ ~IsAdmin(user)
        /\ resp' = Answer(403, 0)
        /\ fault' = "none"
        /\ calls' = <<>>
     \/ /\ LoggedIn(user) /\ IsAdmin(user) /\ empty
        /\ resp' = Answer(200, 0)
        /\ fault' = "none"
        /\ calls' = <<>>
     \/ /\ LoggedIn(user) /\ IsAdmin(user) /\ ~empty
        /\ resp' = Answer(500, 0)
        /\ fault' = "connect"
        /\ calls' = <<"getConnection">>
  /\ caller' = user
  /\ items' = <<>>
  /\ work' = horses
  /\ updated' = 0
  /\ ran' = {}
  /\ pre' = horses
  /\ conn' = "none"
  /\ UNCHANGED <<pool, now, horses, pc>>
  /\ UNCHANGED <<tableVars, statsVars, gateVars, concVars>>

\* a non-empty items array from admin: pool.getConnection() returns, then
\* conn.beginTransaction() returns or throws
BulkBegin(user) ==
  /\ pc = "idle"
  /\ LoggedIn(user) /\ IsAdmin(user)
  /\ pool = "ready"
  /\ \/ pc' = "loop" /\ fault' = "none"
     \/ pc' = "rollback" /\ fault' = "begin"
  /\ caller' = user
  /\ items' = <<>>
  /\ work' = horses
  /\ updated' = 0
  /\ ran' = {}
  /\ pre' = horses
  /\ conn' = "held"
  /\ resp' = NoAnswer
  /\ calls' = <<"getConnection", "beginTransaction">>
  /\ UNCHANGED <<pool, now, horses>>
  /\ UNCHANGED <<tableVars, statsVars, gateVars, concVars>>

\* one pass of the for-loop, over the next item `it` of the array
BulkItem(it) ==
  /\ pc = "loop"
  /\ Len(items) < MaxBatch
  /\ items' = Append(items, it)
  /\ \/ /\ Skipped(it)
        /\ UNCHANGED <<pc, work, updated, ran, fault, calls>>
     \/ /\ ~Skipped(it)
        /\ work' = ApplyUpdate(work, it, now)
        /\ updated' = updated + AffectedRows(work, it)
        /\ ran' = ran \cup {Len(items) + 1}
        /\ calls' = Append(calls, "query")
        /\ UNCHANGED <<pc, fault>>
     \/ /\ ~Skipped(it)
        /\ pc' = "rollback"
        /\ fault' = "query"
        /\ calls' = Append(calls, "query")
        /\ UNCHANGED <<work, updated, ran>>
  /\ UNCHANGED <<pool, now, horses, caller, pre, conn, resp>>
  /\ UNCHANGED <<tableVars, statsVars, gateVars, concVars>>

\* the array is exhausted: conn.commit(); conn.release(); res.json({ updated })
BulkCommit ==
  /\ pc = "loop"
  /\ Len(items) > 0
  /\ \/ /\ horses' = CommitTx(horses, work)
        /\ pc' = "idle"
        /\ conn' = "released"
        /\ resp' = Answer(200, updated)
        /\ calls' = calls \o <<"commit", "release">>
        /\ UNCHANGED fault
     \/ /\ pc' = "rollback"
        /\ fault' = "commit"
        /\ calls' = Append(calls, "commit")
        /\ UNCHANGED <<horses, conn, resp>>
  /\ UNCHANGED <<pool, now, caller, items, work, updated, ran, pre>>
  /\ UNCHANGED <<tableVars, statsVars, gateVars, concVars>>

\* mutant: the catch block releases the connection and rethrows without a rollback
ReleasedOnly(log) == Append(log, "release")

\* await conn.rollback(); conn.release();
RolledBack(log) == log \o <<"rollback", "release">>

\* catch (e) { await conn.rollback(); conn.release(); throw e; } and the outer catch
BulkRollback ==
  /\ pc = "rollback"
  /\ \/ /\ horses' = RollbackTx(horses, work)
        /\ conn' = "released"
        /\ calls' = RolledBack(calls)
     \/ /\ UNCHANGED horses
        /\ conn' = "leaked"
        /\ calls' = Append(calls, "rollback")
  /\ pc' = "idle"
  /\ resp' = Answer(500, 0)
  /\ UNCHANGED <<pool, now, caller, items, work, updated, ran, pre, fault>>
  /\ UNCHANGED <<tableVars, statsVars, gateVars, concVars>>

\* mutant: a caught fault is answered as an empty list
CaughtAsEmpty == Listing(<<>>)

\* catch (err) { ...; res.status(500).json({ error }) }
Caught == Failure(500)

\* mutant: a race that is not on the card is answered as an error
RaceNotFoundAsError == Failure(404)

\* if (!raceRows.length) return res.json({ distance_m: null, items: [] })
\* if (!rRows.length) return res.json([])
RaceNotFound == Listing(<<>>)

\* the handler returns: its answer, the queries it issued, the call that
\* threw and what became of the connection it drew
Returns(answer, queries, thrown, connection) ==
  /\ sresp' = answer
  /\ squeries' = queries
  /\ sfault' = thrown
  /\ sconn' = connection

\* mutant: reading the score rows consumes them
SelectedAndPurged ==
  /\ scores' = {}
  /\ UNCHANGED <<bulkVars, entries, analysis, races, gateVars, concVars>>

\* every statement of the stats handlers and of the race lookup is a SELECT:
\* the four tables and horse_profiles are left as they were read
Selected == UNCHANGED <<bulkVars, tableVars, gateVars, concVars>>

\* GET /api/race/weight_stats
WeightStats(q) ==
  /\ \/ /\ pool = "undefined"
        /\ Returns(Failure(503), <<>>, "none", "none")
     \/ /\ pool = "ready" /\ Missing(q)
        /\ Returns(Failure(400), <<>>, "none", "none")
     \/ /\ pool = "ready" /\ ~Missing(q)
        /\ Returns(Caught, <<"join">>, "join", "none")
     \/ /\ pool = "ready" /\ ~Missing(q)
        /\ LET P == WeightPairs(q)
           IN \E t \in SortedSeqs(P, ByHorseNoThenCode(P)) :
                Returns(Listing(RowsOf(t)), <<"join">>, "none", "none")
  /\ sreq' = [op |-> "weight_stats", q |-> q]
  /\ Selected

\* GET /api/race/draw_stats
DrawStats(q) ==
  /\ \/ /\ pool = "undefined"
        /\ Returns(Failure(503), <<>>, "none", "none")
     \/ /\ pool = "ready" /\ Missing(q)
        /\ Returns(Failure(400), <<>>, "none", "none")
     \/ /\ pool = "ready" /\ ~Missing(q)
        /\ Returns(Caught, <<"join">>, "join", "none")
     \/ /\ pool = "ready" /\ ~Missing(q)
        /\ LET P == DrawPairs(q)
           IN \E t \in SortedSeqs(P, ByHorseNo(P)) :
                Returns(Listing(RowsOf(t)), <<"join">>, "none", "none")
  /\ sreq' = [op |-> "draw_stats", q |-> q]
  /\ Selected

\* GET /api/race/distance_stats
DistanceStats(q) ==
  /\ \/ /\ pool = "undefined"
        /\ Returns(Failure(503), <<>>, "none", "none")
     \/ /\ pool = "ready" /\ Missing(q)
        /\ Returns(Failure(400), <<>>, "none", "none")
     \/ /\ pool = "ready" /\ ~Missing(q)
        /\ Returns(Caught, <<"race">>, "race", "none")
     \/ /\ pool = "ready" /\ ~Missing(q) /\ RaceRows(q) = {}
        /\ Returns(RaceNotFound, <<"race">>, "none", "none")
     \/ /\ pool = "ready" /\ ~Missing(q) /\ RaceRows(q) # {}
        /\ Returns(Caught, <<"race", "join">>, "join", "none")
     \/ /\ pool = "ready" /\ ~Missing(q)
        /\ \E r \in RaceRows(q) :
             LET code == MetricCode(HORSE_DIST, q.venue.s, r.distance_m)
                 P == DistancePairs(q, code)
             IN \E t \in SortedSeqs(P, ByHorseNo(P)) :
                  Returns(StatsAnswer(200, RowsOf(t), r.distance_m, code),
                          <<"race", "join">>, "none", "none")
  /\ sreq' = [op |-> "distance_stats", q |-> q]
  /\ Selected

\* GET /api/race/jockey_dist_stats: no pool guard; the connection drawn from
\* the pool is released in the finally block
JockeyDistStats(q) ==
  /\ \/ /\ Missing(q)
        /\ Returns(Failure(400), <<>>, "none", "none")
     \/ /\ ~Missing(q)
        /\ Returns(Caught, <<>>, "connect", "none")
     \/ /\ ~Missing(q) /\ pool = "ready"
        /\ Returns(Caught, <<"race">>, "race", "released")
     \/ /\ ~Missing(q) /\ pool = "ready" /\ RaceRows(q) = {}
        /\ Returns(RaceNotFound, <<"race">>, "none", "released")
     \/ /\ ~Missing(q) /\ pool = "ready" /\ RaceRows(q) # {}
        /\ Returns(Caught, <<"race", "join">>, "join", "released")
     \/ /\ ~Missing(q) /\ pool = "ready"
        /\ \E r \in RaceRows(q) :
             LET code == MetricCode(JOCKEY_DIST, q.venue.s, r.distance_m)
                 G == JockeyGroups(q, code, r.distance_m)
             IN \E t \in SortedSeqs(G, ByJockey(G)) :
                  Returns(Listing(t), <<"race", "join">>, "none", "released")
  /\ sreq' = [op |-> "jockey_dist_stats", q |-> q]
  /\ Selected

\* GET /api/race/horse_stats
HorseStats(q) ==
  /\ \/ /\ pool = "undefined"
        /\ Returns(Failure(503), <<>>, "none", "none")
     \/ /\ pool = "ready" /\ Missing(q)
        /\ Returns(Failure(400), <<>>, "none", "none")
     \/ /\ pool = "ready" /\ ~Missing(q)
        /\ Returns(Caught, <<"join">>, "join", "none")
     \/ /\ pool = "ready" /\ ~Missing(q)
        /\ LET R == HorseStatsRows(q)
           IN \E t \in SortedSeqs(R, [x \in R |-> x.horse_no]) :
                Returns(Listing([i \in 1..Len(t) |->
                                   [horse_no |-> t[i].horse_no, starts |-> t[i].starts,
                                    metric_code |-> t[i].metric_code, runs |-> t[i].runs]]),
                        <<"join">>, "none", "none")
  /\ sreq' = [op |-> "horse_stats", q |-> q]
  /\ Selected

Next ==
  \/ CreatePool
  \/ Tick
  \/ \E user \in Callers, empty \in BOOLEAN : BulkAnswerEarly(user, empty)
  \/ \E user \in Callers : BulkBegin(user)
  \/ \E it \in EditPool : BulkItem(it)
  \/ BulkCommit
  \/ BulkRollback

Spec == Init /\ [][Next]_vars

NextStats ==
  \/ CreatePool
  \/ \E q \in StatsRequests : WeightStats(q)
  \/ \E q \in StatsRequests : DrawStats(q)
  \/ \E q \in StatsRequests : DistanceStats(q)
  \/ \E q \in StatsRequests : JockeyDistStats(q)
  \/ \E q \in StatsRequests : HorseStats(q)

SpecStats == InitStats /\ [][NextStats]_vars

SpecJoin == InitJoin /\ [][NextStats]_vars

\* entries of race 1: horse 1 is H1 and horse 2 is H2, each ridden by J1 or
\* J2, running or scratched
JockeyEntries ==
  {EntryRow(no, IF no = 1 THEN H1 ELSE H2, j, sc) :
     no \in HorseNos, j \in {J1, J2}, sc \in {0, 1}}

\* jockey-distance score rows of race 1 at ST, over 1200 and 1201 metres
JockeyScores ==
  { ScoreRowWins(H1, MetricCode(JOCKEY_DIST, ST, 1200), 3, 2),
    ScoreRowWins(H2, MetricCode(JOCKEY_DIST, ST, 1200), 5, 1),
    ScoreRowWins(H2, MetricCode(JOCKEY_DIST, ST, 1200), 3, 2),
    ScoreRowWins(H2, MetricCode(JOCKEY_DIST, ST, 1201), 9, 9) }

\* a score row is identified by (race_date, venue_code, race_no, horse_id, metric_code)
ScoreKeysUnique(S) ==
  \A x, y \in S :
    (/\ x.race_date = y.race_date /\ x.venue_code = y.venue_code /\ x.race_no = y.race_no
     /\ x.horse_id = y.horse_id /\ x.metric_code = y.metric_code) => x = y

\* the race card row of race 1: over 1200 metres, or with no distance filled in
JockeyRaces == {RaceRow(1200), RaceRow(SqlNull)}

\* the server starts over a race card whose runners have jockeys
InitJockey ==
  /\ BulkInit
  /\ entries \in {E \in SubsetsUpTo(JockeyEntries, MaxEntries) : EntryKeysUnique(E)}
  /\ scores \in {S \in SubsetsUpTo(JockeyScores, MaxScores) : ScoreKeysUnique(S)}
  /\ analysis = {}
  /\ races \in {R \in SUBSET JockeyRaces : RaceKeysUnique(R)}
  /\ StatsIdle
  /\ GateIdle
  /\ ConcIdle

\* the two handlers that look the race up before they join
NextLookup ==
  \/ CreatePool
  \/ \E q \in StatsRequests : DistanceStats(q)
  \/ \E q \in StatsRequests : JockeyDistStats(q)

SpecJockey == InitJockey /\ [][NextLookup]_vars

\* the ways the upstream tables may spell the horse_id H1: as is, with a
\* leading space, in lower case, with a trailing space
IdSpellings == {H1, <<" ", "H", "1">>, <<"h", "1">>, <<"H", "1", " ">>}

\* the entry of horse 1 of race 1, under each spelling of its horse_id
IdEntries == {EntryRow(1, id, J1, 0) : id \in IdSpellings}

\* the score rows of H1 for race 1 at ST, one of each family
IdScores ==
  {ScoreRow(H1, code, 3) :
     code \in {WEIGHT_A, HORSE_DRAW_1_4,
               MetricCode(HORSE_DIST, ST, 1200), MetricCode(JOCKEY_DIST, ST, 1200)}}

\* the server starts over tables that spell one horse_id in different ways
InitIds ==
  /\ BulkInit
  /\ entries \in {E \in SubsetsUpTo(IdEntries, MaxEntries) : EntryKeysUnique(E)}
  /\ scores \in SubsetsUpTo(IdScores, MaxScores)
  /\ analysis \in SUBSET {AnalysisRow(H1, 4)}
  /\ races = {RaceRow(1200)}
  /\ StatsIdle
  /\ GateIdle
  /\ ConcIdle

SpecIds == InitIds /\ [][NextStats]_vars

(***************************************************************************)
(* The middleware chain: session, the global gate, the routes.             *)
(***************************************************************************)
\* the request paths in use
Paths ==
  [ login |-> <<"/", "l", "o", "g", "i", "n">>,
    health |-> <<"/", "a", "p", "i", "/", "h", "e", "a", "l", "t", "h">>,
    styles |-> <<"/", "s", "t", "y", "l", "e", "s", ".", "c", "s", "s">>,
    favicon |-> <<"/", "f", "a", "v", "i", "c", "o", "n", ".", "i", "c", "o">>,
    flask |-> <<"/", "f", "l", "a", "s", "k">>,
    api |-> <<"/", "a", "p", "i">>,
    root |-> <<"/">>,
    logout |-> <<"/", "l", "o", "g", "o", "u", "t">>,
    app |-> <<"/", "a", "p", "p">>,
    horse_stats |-> <<"/", "a", "p", "i", "/", "r", "a", "c", "e", "/", "h", "o", "r", "s", "e", "_", "s", "t", "a", "t", "s">>,
    weight_stats |-> <<"/", "a", "p", "i", "/", "r", "a", "c", "e", "/", "w", "e", "i", "g", "h", "t", "_", "s", "t", "a", "t", "s">>,
    debug_db |-> <<"/", "d", "e", "b", "u", "g", "/", "d", "b">>,
    bulk_update |-> <<"/", "a", "p", "i", "/", "h", "o", "r", "s", "e", "s", "/", "b", "u", "l", "k", "-", "u", "p", "d", "a", "t", "e">>,
    flask_x |-> <<"/", "f", "l", "a", "s", "k", "/", "x">>,
    login_slash |-> <<"/", "l", "o", "g", "i", "n", "/">>,
    debug_upper |-> <<"/", "D", "E", "B", "U", "G", "/", "D", "B">>,
    nowhere |-> <<"/", "n", "o", "w", "h", "e", "r", "e">> ]

\* const PUBLIC_PATHS = new Set([...])
PUBLIC_PATHS == {Paths.login, Paths.health, Paths.styles, Paths.favicon}

\* s.startsWith(p)
StartsWith(s, p) == Len(s) >= Len(p) /\ SubSeq(s, 1, Len(p)) = p

\* mutant: every /api path is let through as well
GatePassesApi(path, user) ==
  \/ path \in PUBLIC_PATHS
  \/ StartsWith(path, Paths.flask)
  \/ StartsWith(path, Paths.api)
  \/ user # NoUser

\* the global gate: whitelisted paths, /flask..., and logged-in sessions go on
GatePasses(path, user) ==
  \/ path \in PUBLIC_PATHS
  \/ StartsWith(path, Paths.flask)
  \/ user # NoUser

Handler(method, path, name, auth, storage) ==
  [method |-> method, path |-> path, name |-> name, auth |-> auth, storage |-> storage]

\* the routes registered on the app: auth is requireAuth, storage tells
\* whether the handler issues a query
Handlers ==
  { Handler("GET", Paths.health, "health", FALSE, FALSE),
    Handler("GET", Paths.root, "root", FALSE, FALSE),
    Handler("GET", Paths.login, "loginPage", FALSE, FALSE),
    Handler("POST", Paths.login, "login", FALSE, TRUE),
    Handler("POST", Paths.logout, "logout", FALSE, FALSE),
    Handler("GET", Paths.app, "app", TRUE, FALSE),
    Handler("GET", Paths.horse_stats, "horse_stats", FALSE, TRUE),
    Handler("GET", Paths.weight_stats, "weight_stats", TRUE, TRUE),
    Handler("POST", Paths.bulk_update, "bulk-update", TRUE, TRUE),
    Handler("GET", Paths.debug_db, "debug/db", FALSE, TRUE) }

\* where a request that got past the gate ends: express.static, a route,
\* or the catch-all at the end of the chain. The router drops a trailing
\* slash (strict routing is off) and matches without regard to letter case.
Route(method, path) ==
  LET loose == IF Len(path) > 1 /\ path[Len(path)] = "/"
               THEN SubSeq(path, 1, Len(path) - 1) ELSE path
      matching == {h \in Handlers : h.method = method /\ FoldStr(h.path) = FoldStr(loose)}
  IN IF method = "GET" /\ path \in {Paths.styles, Paths.favicon}
     THEN Handler(method, path, "static", FALSE, FALSE)
     ELSE IF matching # {} THEN CHOOSE h \in matching : TRUE
     ELSE IF StartsWith(path, Paths.flask) THEN Handler(method, path, "flask", FALSE, FALSE)
     ELSE Handler(method, path, "fallback", FALSE, FALSE)

Request(method, path) == [method |-> method, path |-> path]

\* the requests a browser sends, POST /login and POST /logout apart
Requests ==
  {Request("GET", q) : q \in {Paths.login, Paths.health, Paths.styles, Paths.root, Paths.app, Paths.horse_stats,
                               Paths.weight_stats, Paths.debug_db, Paths.flask_x, Paths.login_slash,
                               Paths.debug_upper, Paths.nowhere, Paths.logout}}
  \cup {Request("POST", q) : q \in {Paths.bulk_update, Paths.horse_stats, Paths.login_slash}}

\* the rows of the users table
Accounts == {[username |-> "admin", role |-> "admin"], [username |-> "bob", role |-> "viewer"]}

Ended(s, r, user, ends, storage) ==
  [sid |-> s, method |-> r.method, path |-> r.path, user |-> user,
   ends |-> ends, storage |-> storage]

\* a request of session s runs down the chain: the gate, then the route
\* with its requireAuth
Visit(s, r) ==
  /\ LET user == sessions[s]
         h == Route(r.method, r.path)
     IN hit' = IF ~GatePasses(r.path, user) THEN Ended(s, r, user, "redirect:/login", FALSE)
               ELSE IF h.auth /\ user = NoUser THEN Ended(s, r, user, "redirect:/login", FALSE)
               ELSE Ended(s, r, user, h.name, h.storage)
  /\ UNCHANGED sessions
  /\ UNCHANGED <<bulkVars, tableVars, statsVars, concVars>>

\* POST /login: the path is whitelisted; the handler looks the user up and,
\* when the password matches, writes req.session.user
Login(s, account, ok) ==
  /\ LET r == Request("POST", Paths.login)
         user == sessions[s]
     IN /\ GatePasses(r.path, user)
        /\ \/ /\ pool = "undefined"
              /\ hit' = Ended(s, r, user, "login", FALSE)
              /\ UNCHANGED sessions
           \/ /\ pool = "ready" /\ ~ok
              /\ hit' = Ended(s, r, user, "login", TRUE)
              /\ UNCHANGED sessions
           \/ /\ pool = "ready" /\ ok
              /\ hit' = Ended(s, r, user, "login", TRUE)
              /\ sessions' = [sessions EXCEPT ![s] = account]
  /\ UNCHANGED <<bulkVars, tableVars, statsVars, concVars>>

\* req.session.destroy(): the session holds no user afterwards
LoggedOut(user) == NoUser

\* POST /logout
Logout(s) ==
  /\ LET r == Request("POST", Paths.logout)
         user == sessions[s]
     IN \/ /\ ~GatePasses(r.path, user)
           /\ hit' = Ended(s, r, user, "redirect:/login", FALSE)
           /\ UNCHANGED sessions
        \/ /\ GatePasses(r.path, user)
           /\ hit' = Ended(s, r, user, "logout", FALSE)
           /\ sessions' = [sessions EXCEPT ![s] = LoggedOut(user)]
  /\ UNCHANGED <<bulkVars, tableVars, statsVars, concVars>>

NextGate ==
  \/ CreatePool
  \/ \E s \in SessionIds, r \in Requests : Visit(s, r)
  \/ \E s \in SessionIds, account \in Accounts, ok \in BOOLEAN : Login(s, account, ok)
  \/ \E s \in SessionIds : Logout(s)

SpecGate == Init /\ [][NextGate]_vars

(***************************************************************************)
(* Bulk updates running side by side, each on its own pooled connection    *)
(* and in its own transaction.                                             *)
(***************************************************************************)
ConnectionLimit == 10   \* connectionLimit of mysql.createPool

MaxConcBatch == 2       \* most items of a batch that runs beside another

\* the items the concurrent batches carry
ConcEdits ==
  { Edit(Str(H1), Str(<<"A">>), Undefined, Undefined, Undefined),
    Edit(Str(H1), Str(<<"B">>), Undefined, Undefined, Undefined),
    Edit(Str(H2), Str(<<"B">>), Undefined, Undefined, Undefined) }

\* the UPDATE of request r can lock row h: no other transaction holds it
RowFree(h, r) == locks[h] \in {0, r}

\* horse_profiles as the transaction of r sees it: its own writes over the
\* committed rows
View(r) == [h \in DOMAIN horses |-> IF locks[h] = r THEN reqs[r].w[h] ELSE horses[h]]

\* the row locks once the transaction of r has ended
Unlocked(r) == [h \in DOMAIN locks |-> IF locks[h] = r THEN 0 ELSE locks[h]]

\* the connection is handed to r; conn.beginTransaction() returns or throws
Acquire(r) ==
  /\ out < ConnectionLimit
  /\ out' = out + 1
  /\ \/ reqs' = [reqs EXCEPT ![r] = [IdleReq EXCEPT !.pc = "loop", !.conn = "held", !.w = horses]]
     \/ reqs' = [reqs EXCEPT ![r] = [IdleReq EXCEPT !.pc = "rollback", !.conn = "held",
                                                    !.fault = "begin", !.w = horses]]
  /\ UNCHANGED <<locks, commitLog>>

\* a bulk update by admin with a non-empty items array arrives:
\* pool.getConnection() throws, returns a connection, or queues the request
ConcArrive(r) ==
  /\ reqs[r].pc = "idle"
  /\ \/ /\ reqs' = [reqs EXCEPT ![r] = [IdleReq EXCEPT !.pc = "done", !.fault = "connect",
                                                       !.status = 500]]
        /\ UNCHANGED <<locks, out, commitLog>>
     \/ /\ pool = "ready"
        /\ Acquire(r)
     \/ /\ pool = "ready"
        /\ out >= ConnectionLimit
        /\ reqs' = [reqs EXCEPT ![r] = [IdleReq EXCEPT !.pc = "waiting"]]
        /\ UNCHANGED <<locks, out, commitLog>>
  /\ UNCHANGED <<bulkVars, tableVars, statsVars, gateVars>>

\* waitForConnections: a queued request gets a connection once one is free
ConcGrant(r) ==
  /\ reqs[r].pc = "waiting"
  /\ Acquire(r)
  /\ UNCHANGED <<bulkVars, tableVars, statsVars, gateVars>>

\* one pass of the for-loop of request r over its next item
ConcItem(r, it) ==
  /\ reqs[r].pc = "loop"
  /\ Len(reqs[r].items) < MaxConcBatch
  /\ \/ /\ Skipped(it)
        /\ reqs' = [reqs EXCEPT ![r].items = Append(@, it)]
        /\ UNCHANGED locks
     \/ /\ ~Skipped(it)
        /\ \A h \in DOMAIN horses : Matches(h, it) => RowFree(h, r)
        /\ reqs' = [reqs EXCEPT ![r].items = Append(@, it),
                                ![r].w = ApplyUpdate(View(r), it, now),
                                ![r].updated = @ + AffectedRows(View(r), it)]
        /\ locks' = [h \in DOMAIN locks |-> IF Matches(h, it) THEN r ELSE locks[h]]
     \/ /\ ~Skipped(it)
        /\ reqs' = [reqs EXCEPT ![r].items = Append(@, it),
                                ![r].pc = "rollback", ![r].fault = "query"]
        /\ UNCHANGED locks
  /\ UNCHANGED <<out, commitLog>>
  /\ UNCHANGED <<bulkVars, tableVars, statsVars, gateVars>>

\* conn.commit(); conn.release(); res.json({ updated })
ConcCommit(r) ==
  /\ reqs[r].pc = "loop"
  /\ Len(reqs[r].items) > 0
  /\ \/ /\ horses' = CommitTx(horses, View(r))
        /\ locks' = Unlocked(r)
        /\ commitLog' = Append(commitLog, r)
        /\ out' = out - 1
        /\ reqs' = [reqs EXCEPT ![r].pc = "done", ![r].conn = "released", ![r].status = 200]
     \/ /\ reqs' = [reqs EXCEPT ![r].pc = "rollback", ![r].fault = "commit"]
        /\ UNCHANGED <<horses, locks, commitLog, out>>
  /\ UNCHANGED <<pool, now, handlerVars, tableVars, statsVars, gateVars>>

\* catch (e) { await conn.rollback(); conn.release(); throw e; } and the
\* outer catch answering 500; a rollback that throws skips the release
ConcRollback(r) ==
  /\ reqs[r].pc = "rollback"
  /\ locks' = Unlocked(r)
  /\ \/ /\ out' = out - 1
        /\ reqs' = [reqs EXCEPT ![r].pc = "done", ![r].conn = "released", ![r].status = 500]
     \/ /\ out' = out
        /\ reqs' = [reqs EXCEPT ![r].pc = "done", ![r].conn = "leaked", ![r].status = 500]
  /\ UNCHANGED commitLog
  /\ UNCHANGED <<bulkVars, tableVars, statsVars, gateVars>>

\* the request has been answered; the next request takes its place
ConcNext(r) ==
  /\ reqs[r].pc = "done"
  /\ reqs' = [reqs EXCEPT ![r] = IdleReq]
  /\ commitLog' = SelectSeq(commitLog, LAMBDA x : x # r)
  /\ UNCHANGED <<locks, out>>
  /\ UNCHANGED <<bulkVars, tableVars, statsVars, gateVars>>

\* two bulk updates side by side
NextConc ==
  \/ CreatePool
  \/ \E r \in ReqIds : ConcArrive(r)
  \/ \E r \in ReqIds, it \in ConcEdits : ConcItem(r, it)
  \/ \E r \in ReqIds : ConcCommit(r)
  \/ \E r \in ReqIds : ConcRollback(r)

SpecConc == Init /\ [][NextConc]_vars

\* bulk updates one after another and side by side, over the pool
NextPool ==
  \/ CreatePool
  \/ \E r \in ReqIds : ConcArrive(r)
  \/ \E r \in ReqIds : ConcGrant(r)
  \/ \E r \in ReqIds, it \in ConcEdits : ConcItem(r, it)
  \/ \E r \in ReqIds : ConcCommit(r)
  \/ \E r \in ReqIds : ConcRollback(r)
  \/ \E r \in ReqIds : ConcNext(r)

SpecPool == Init /\ [][NextPool]_vars

\* the current_rating values a request body may carry: texts and numbers
RatingValues ==
  { Str(<<"8", "5", "x">>), Str(<<"a", "b", "c">>), Str(<<>>), Str(<<"0">>),
    Str(<<"-", "1", "2">>), Str(<<" ", "4", "2">>), Str(<<"0", "0", "7">>),
    Str(<<"x", "9">>), Num(90), Num(0), Num(0 - 3) }

\* edits of H1 that carry a current_rating, and one whose rating is null
RatingEdits ==
  {Edit(Str(H1), Undefined, Undefined, r, Undefined) : r \in RatingValues}
  \cup {Edit(Str(H1), Undefined, Undefined, JsNull, Undefined)}

\* the bulk update by admin, over batches of rating edits
NextRating ==
  \/ CreatePool
  \/ BulkBegin([username |-> "admin", role |-> "admin"])
  \/ \E it \in RatingEdits : BulkItem(it)
  \/ BulkCommit
  \/ BulkRollback

SpecRating == Init /\ [][NextRating]_vars

(***************************************************************************)
(* Properties of the bulk update.                                          *)
(***************************************************************************)
\* f is a whitelisted column the edit carries with a usable value
Carries(it, f) ==
  CASE f = "owner" -> it.owner.type = "string"
    [] f = "trainer_id" -> it.trainer_id.type = "string"
    [] f = "current_rating" -> it.current_rating.type \notin {"undefined", "null"}

\* the edit has no horse_id, or carries no whitelisted column
Skippable(it) == ~Truthy(it.horse_id) \/ \A f \in Whitelist : ~Carries(it, f)

\* the edit names the record h
Names(it, h) == it.horse_id.type = "string" /\ it.horse_id.s = h

\* the value the edit gives column f
Given(it, f) == IF f = "current_rating" THEN ParseIntOr0(it.current_rating) ELSE it[f].s

\* the positions of the valid edits of the batch that give record h a value for f
Writers(h, f) ==
  {i \in 1..Len(items) : ~Skippable(items[i]) /\ Names(items[i], h) /\ Carries(items[i], f)}

Committed200 == pc = "idle" /\ conn = "released" /\ resp.status = 200

\* C1: a bulk update is all-or-nothing. While the request runs no edit of the
\* batch is visible in horse_profiles; if any call of it raised a fault, the
\* table is afterwards exactly what it was when the request arrived; when it
\* answers 200, every valid edit of the batch is in the table.
C1_AllOrNothing ==
  /\ pc \in {"loop", "rollback"} => horses = pre
  /\ (pc = "idle" /\ fault # "none") => (horses = pre /\ resp.status = 500)
  /\ Committed200 =>
       /\ fault = "none"
       /\ \A h \in DOMAIN pre : \A f \in Whitelist :
            horses[h][f] = IF Writers(h, f) = {} THEN pre[h][f]
                           ELSE Given(items[SetMax(Writers(h, f))], f)

\* C1 witness: a statement faulted after an earlier edit of the batch had
\* been written inside the transaction, and the table shows none of it.
C1_Witness ==
  /\ pc = "idle" /\ fault = "query" /\ resp.status = 500
  /\ ran # {} /\ work # pre /\ horses = pre

\* C6 (as claimed): the request of a logged-in caller whose session role is
\* not the privileged one never takes a connection or opens a transaction,
\* and leaves every horse record as it was.
C6_OnlyPrivilegedRole ==
  (LoggedIn(caller) /\ caller.role # "admin") => (conn = "none" /\ horses = pre)

\* C7: when a committed batch holds several edits of the same record and
\* column, the value persisted is the one of the last of them in list order,
\* and updatedCount counts every executed edit that names an existing record,
\* each of the repeated ones included.
C7_LastEditWins ==
  Committed200 =>
    /\ \A h \in DOMAIN pre : \A f \in Whitelist :
         Cardinality(Writers(h, f)) >= 2 =>
           horses[h][f] = Given(items[SetMax(Writers(h, f))], f)
    /\ resp.updated =
         Cardinality({i \in ran : \E h \in DOMAIN pre : Names(items[i], h)})

\* C7 witness: owner A then owner B for H1 in one batch, committed: B is
\* persisted and updatedCount is 2.
C7_Witness ==
  /\ Committed200
  /\ Len(items) = 2
  /\ items[1].horse_id = Str(H1) /\ items[1].owner = Str(<<"A">>)
  /\ items[2].horse_id = Str(H1) /\ items[2].owner = Str(<<"B">>)
  /\ horses[H1].owner = <<"B">>
  /\ resp.updated = 2

\* C8: an executed edit whose horse_id matches no record adds 0 to the count
\* (the count is at every moment the number of executed edits that name an
\* existing record) and does not abort: only a fault of a storage call sends
\* the batch to rollback, and the batch goes on to commit.
C8_UnknownIdCountsZero ==
  /\ updated = Cardinality({i \in ran : \E h \in DOMAIN pre : Names(items[i], h)})
  /\ pc = "rollback" => fault \in {"begin", "query", "commit"}
  /\ (pc = "idle" /\ resp.status = 500) => fault # "none"
  /\ Committed200 => (horses = work /\ resp.updated = updated)

\* C8 witness: a batch whose first edit names NOPE and whose second names H1
\* commits with updatedCount 1 and the second edit applied.
C8_Witness ==
  /\ Committed200
  /\ Len(items) = 2 /\ ran = {1, 2}
  /\ items[1].horse_id = Str(NOPE)
  /\ items[2].horse_id = Str(H1) /\ items[2].owner = Str(<<"A">>)
  /\ resp.updated = 1
  /\ horses[H1].owner = <<"A">>

C10_Frame ==
  /\ DOMAIN horses = DOMAIN HorsesInit
  /\ \A h \in DOMAIN horses : horses[h].name_chi = HorsesInit[h].name_chi
  /\ \A h \in DOMAIN horses :
       (\A i \in ran : ~Names(items[i], h)) => (horses[h] = pre[h] /\ work[h] = pre[h])

\* C10 witness: a committed edit of H2 that also carried a name_chi key
\* changed current_rating and left name_chi and the record H1 alone.
C10_Witness ==
  /\ Committed200
  /\ \E i \in ran : items[i].name_chi.type = "string" /\ Names(items[i], H2)
  /\ horses[H2].current_rating = 85
  /\ horses[H2].name_chi = <<"Y">>
  /\ horses[H1] = pre[H1]

(***************************************************************************)
(* Properties of the stats joins.                                          *)
(***************************************************************************)
\* the entries of the requested race
RaceEntries ==
  {e \in entries : e.race_date = sreq.q.date.s /\ e.race_no = NumberOf(sreq.q.race_no)}

Running == {e \in RaceEntries : e.scratched # 1}

HorseLevelOps == {"weight_stats", "draw_stats", "distance_stats"}

Listed == sresp.status = 200

\* the race card holds the requested race
RaceKnown == \E r \in races : OfRace(r, sreq.q)

\* C2 (as claimed): no scratched entry appears in the answer of any stats
\* join: every listed horse_no is not that of a scratched entry of the race,
\* and every listed jockey rides an entry that is not scratched.
C2_ScratchedNeverListed ==
  Listed =>
    \A i \in 1..Len(sresp.rows) :
      IF sreq.op = "jockey_dist_stats"
      THEN \E e \in Running : e.jockey_zh = sresp.rows[i].jockey_zh
      ELSE \A e \in RaceEntries : e.horse_no = sresp.rows[i].horse_no => e.scratched # 1

\* C3 (as claimed): for the horse-level families the answer holds exactly one
\* record per entry of the race that is not scratched, so its length is the
\* number of those entries.
C3_OneRecordPerEntry ==
  (Listed /\ sreq.op \in HorseLevelOps /\ RaceKnown) =>
    /\ Len(sresp.rows) = Cardinality(Running)
    /\ \A e \in Running :
         Cardinality({i \in 1..Len(sresp.rows) : sresp.rows[i].horse_no = e.horse_no}) = 1

\* C4 (as claimed): an entry that is not scratched and has no score row of the
\* requested family is still listed, with NULL statistics.
C4_UnscoredStillListed ==
  (Listed /\ sreq.op \in HorseLevelOps /\ RaceKnown) =>
    \A e \in Running :
      \E i \in 1..Len(sresp.rows) :
        /\ sresp.rows[i].horse_no = e.horse_no
        /\ (\A rc \in scores : ~JoinOn(rc, e)) => sresp.rows[i].runs = SqlNull

\* C5 (as claimed): the answer holds at most one score per horse for the
\* family asked for, also when the score table holds several sub-band rows
\* of a prefix family for that horse.
C5_OneScorePerHorse ==
  (Listed /\ sreq.op \in HorseLevelOps \cup {"horse_stats"}) =>
    \A i, j \in 1..Len(sresp.rows) :
      sresp.rows[i].horse_no = sresp.rows[j].horse_no => i = j

(***************************************************************************)
(* Properties of the metric code and the race lookup.                      *)
(***************************************************************************)
\* the code the claim spells out for a race at ST over 1200 or 1201 metres
SpelledCode(distance_m) ==
  <<"H", "O", "R", "S", "E", "_", "D", "I", "S", "T", "_", "S", "T", "_", "1", "2", "0">>
    \o (IF distance_m = 1200 THEN <<"0">> ELSE <<"1">>)

SampleDistances == {9, 99, 999, 1000, 1200, 1650}

\* C11: the horse-distance code is HORSE_DIST_<venue>_<distance_m> of the
\* race's own distance: a distance one metre longer gives another code, the
\* race at HV over 1200 gives HORSE_DIST_HV_1200, and an answer of
\* distance_stats for a race on the card carries that code and lists only
\* score rows whose code is that code.
C11_ExactDistanceCode ==
  /\ \A v \in {ST, HV} : \A d \in SampleDistances :
       MetricCode(HORSE_DIST, v, d) # MetricCode(HORSE_DIST, v, d + 1)
  /\ MetricCode(HORSE_DIST, HV, 1200)
       = <<"H", "O", "R", "S", "E", "_", "D", "I", "S", "T", "_", "H", "V", "_", "1", "2", "0", "0">>
  /\ (Listed /\ sreq.op = "distance_stats" /\ RaceKnown) =>
       \E r \in races :
         /\ OfRace(r, sreq.q)
         /\ sresp.distance_m = r.distance_m
         /\ sresp.metric_code = SpelledCode(r.distance_m)
         /\ \A i \in 1..Len(sresp.rows) :
              FoldStr(sresp.rows[i].metric_code) = SpelledCode(r.distance_m)

\* C11 witness: the horse of a listed entry also has a score row over 1201
\* metres; the race is over 1200 and only the 1200 row is listed.
C11_Witness ==
  /\ Listed /\ sreq.op = "distance_stats"
  /\ sresp.distance_m = 1200
  /\ Len(sresp.rows) = 1
  /\ \E e \in entries : \E rc \in scores :
       /\ JoinOn(rc, e)
       /\ e.horse_no = sresp.rows[1].horse_no
       /\ rc.metric_code = MetricCode(HORSE_DIST, ST, 1201)

\* the handlers that look the race up before they join
LookupOps == {"distance_stats", "jockey_dist_stats"}

\* C12: when no race-card row matches the request, distance_stats and
\* jockey_dist_stats answer successfully with an empty result once the
\* lookup has returned: no metric code is built and the score join is not
\* run (the lookup is the only query issued).
C12_NotFoundIsEmpty ==
  (/\ sreq.op \in LookupOps
   /\ ~Missing(sreq.q)
   /\ ~RaceKnown
   /\ sfault = "none"
   /\ sresp.status # 503) =>
    /\ sresp.status = 200
    /\ sresp.rows = <<>>
    /\ sresp.metric_code = <<>>
    /\ sresp.distance_m = SqlNull
    /\ squeries = <<"race">>

\* C12 witness: the card has no row for the requested race although the
\* entry and score tables are filled; jockey_dist_stats answers an empty list
\* after the lookup alone.
C12_Witness ==
  /\ sreq.op = "jockey_dist_stats"
  /\ ~Missing(sreq.q)
  /\ ~RaceKnown
  /\ entries # {} /\ scores # {}
  /\ sresp.status = 200 /\ sresp.rows = <<>>
  /\ squeries = <<"race">>
  /\ sconn = "released"

(***************************************************************************)
(* Properties of the jockey-distance join and of the failure answers.      *)
(***************************************************************************)
\* the jockeys riding an entry of the requested race that is not scratched
RunningJockeys == {e.jockey_zh : e \in Running}

\* C13 (as claimed): the answer of jockey_dist_stats holds exactly one row
\* per distinct jockey of the entries of the race that are not scratched, so
\* its length is the number of those jockeys.
C13_OneRowPerJockey ==
  (Listed /\ sreq.op = "jockey_dist_stats" /\ RaceKnown) =>
    /\ Len(sresp.rows) = Cardinality(RunningJockeys)
    /\ \A j \in RunningJockeys :
         Cardinality({i \in 1..Len(sresp.rows) : sresp.rows[i].jockey_zh = j}) = 1

\* C14 (as claimed): a complete stats request, and a bulk update that goes
\* as far as asking for a connection, arriving while the pool is not yet
\* initialised is answered ServiceUnavailable (503).
C14_PoolMissingIsUnavailable ==
  /\ (sreq.op # "none" /\ ~Missing(sreq.q) /\ pool = "undefined") => sresp.status = 503
  /\ (calls # <<>> /\ pool = "undefined") => resp.status = 503

\* how many times the call x occurs in the log
Count(log, x) == Cardinality({i \in 1..Len(log) : log[i] = x})

\* C15 (as claimed): a connection drawn from the pool is given back exactly
\* once on every path: when the bulk update has answered, the connection it
\* drew is released and release was called once, and a stats request never
\* ends with its connection checked out.
C15_ConnectionReturnedOnce ==
  /\ Count(calls, "release") <= 1
  /\ (pc = "idle" /\ conn # "none") => (conn = "released" /\ Count(calls, "release") = 1)
  /\ sconn \in {"none", "released"}

\* C16: when a statement of the batch has thrown, the handler is in its
\* catch block or has answered: the faulting statement is the last one
\* issued (no later edit is executed), commit is never issued, nothing is
\* answered before the rollback is issued, and the answer that propagates
\* the fault (500) comes after the rollback, with the table as it was.
C16_RollbackBeforePropagate ==
  fault = "query" =>
    /\ pc \in {"rollback", "idle"}
    /\ Count(calls, "query") = Cardinality(ran) + 1
    /\ Count(calls, "commit") = 0
    /\ pc = "rollback" => (resp = NoAnswer /\ calls[Len(calls)] = "query")
    /\ pc = "idle" =>
         /\ resp.status = 500
         /\ horses = pre
         /\ \E k \in 1..(Len(calls) - 1) :
              /\ calls[k] = "query"
              /\ calls[k + 1] = "rollback"
              /\ \A j \in (k + 2)..Len(calls) : calls[j] = "release"

\* C16 witness: the second statement of a batch threw after the first had
\* run: the log ends query, query, rollback, release and the answer is 500.
C16_Witness ==
  /\ fault = "query" /\ pc = "idle" /\ resp.status = 500
  /\ Cardinality(ran) = 1
  /\ calls = <<"getConnection", "beginTransaction", "query", "query", "rollback", "release">>

\* C17: in every stats handler a call that throws (taking the connection,
\* the race lookup or the join) is answered 500, and a 200 answer is given
\* only when every query issued returned: the join, or the lookup alone when
\* the race is not on the card. An empty list therefore never stands for a fault.
C17_FaultNeverLooksEmpty ==
  /\ sfault # "none" => (sresp.status = 500 /\ sresp.rows = <<>>)
  /\ Listed =>
       /\ sfault = "none"
       /\ \/ squeries = <<"join">> /\ sreq.op \notin LookupOps
          \/ squeries = <<"race", "join">> /\ sreq.op \in LookupOps /\ RaceKnown
          \/ squeries = <<"race">> /\ sreq.op \in LookupOps /\ ~RaceKnown

\* C17 witness: the join of distance_stats threw for a race that is on the
\* card, with an entry and a score to list: the answer is 500.
C17_Witness ==
  /\ sreq.op = "distance_stats"
  /\ sfault = "join"
  /\ squeries = <<"race", "join">>
  /\ sresp.status = 500
  /\ \E r \in races :
       OfRace(r, sreq.q)
         /\ DistancePairs(sreq.q, MetricCode(HORSE_DIST, sreq.q.venue.s, r.distance_m)) # {}

\* the request carries no date, no venue or no race_no
Lacks(q) == q.date = Undefined \/ q.venue = Undefined \/ q.race_no = Undefined

Invalid(q) ==
  /\ ~Lacks(q)
  /\ \/ q.venue.s \notin {ST, HV}
     \/ NumberOf(q.race_no) \notin 1..12

\* C19 (as claimed): a stats request whose race identity is present but
\* invalid is answered BadRequest (400) and is not passed to the storage
\* queries (stated for requests that got past the pool guard and whose calls
\* did not throw).
C19_InvalidIdentityRejected ==
  (/\ sreq.op # "none"
   /\ Invalid(sreq.q)
   /\ sresp.status # 503
   /\ sfault = "none") =>
    (sresp.status = 400 /\ squeries = <<>>)

\* C20: the list answered for a horse-level family (weight_stats,
\* draw_stats, distance_stats) is in ascending order of horse_no.
C20_OrderedByHorseNo ==
  (Listed /\ sreq.op \in HorseLevelOps) =>
    \A i, j \in 1..Len(sresp.rows) :
      i < j => sresp.rows[i].horse_no <= sresp.rows[j].horse_no

\* C20 witness: distance_stats lists two horses, horse_no 1 before horse_no 2.
C20_Witness ==
  /\ Listed /\ sreq.op = "distance_stats"
  /\ Len(sresp.rows) = 2
  /\ sresp.rows[1].horse_no = 1
  /\ sresp.rows[2].horse_no = 2

(***************************************************************************)
(* Properties of the statement built for one edit.                         *)
(***************************************************************************)
\* the edit has the key f with a value that is not null
Present(it, f) == it[f].type \notin {"undefined", "null"}

\* the value column f holds once the edit's value for it has been stored
Stored(it, f) ==
  IF f = "current_rating" THEN ParseIntOr0(it.current_rating)
  ELSE IF it[f].type = "string" THEN it[f].s
  ELSE Decimal(it[f].n)

\* the edit whose statement the step has executed
Executed(i) == i \in ran

\* C24 (as claimed): the statement executed for an edit assigns exactly the
\* whitelisted fields that are present and not null in it: each of them gets
\* the edit's value in the matched record, whatever its type, and every other
\* whitelisted column keeps its value.
C24_PresentFieldsAssigned ==
  [][(Len(items') \in ran' /\ items' # items) =>
       LET it == items'[Len(items')]
       IN \A h \in DOMAIN work : Names(it, h) =>
            \A f \in Whitelist :
              work'[h][f] = IF Present(it, f) THEN Stored(it, f) ELSE work[h][f]]_vars

\* C24: the statement executed for an edit assigns exactly the whitelisted
\* fields the edit carries with a value of the expected kind (owner and
\* trainer_id as text, current_rating as anything but null): each of them
\* gets the edit's value in the matched record; a field that is absent, null,
\* or an owner or trainer_id that is no text, is left as it was, and so is
\* every record the edit does not name.
C24_UsableFieldsAssigned ==
  [][(Len(items') \in ran' /\ items' # items) =>
       LET it == items'[Len(items')]
       IN \A h \in DOMAIN work :
            IF Names(it, h)
            THEN \A f \in Whitelist :
                   work'[h][f] = IF Carries(it, f) THEN Given(it, f) ELSE work[h][f]
            ELSE \A f \in Whitelist : work'[h][f] = work[h][f]]_vars

\* C24 witness: the edit {H1, owner: 7, trainer_id: "T9", current_rating:
\* null} has been executed: the trainer is assigned, owner and rating are not.
C24_Witness ==
  /\ pc = "loop" /\ Len(items) = 1 /\ Executed(1)
  /\ items[1].horse_id = Str(H1)
  /\ items[1].owner = Num(7) /\ items[1].current_rating = JsNull
  /\ work[H1].trainer_id = <<"T", "9">>
  /\ work[H1].owner = pre[H1].owner
  /\ work[H1].current_rating = pre[H1].current_rating

\* the batch has executed a statement whose WHERE clause names record h
Touched(h) == \E i \in ran : Names(items[i], h)

\* C27: every record matched by an executed edit is stamped with the reading
\* of the storage clock at the moment its statement ran, and a committed
\* batch persists exactly those stamps (none older than the stamp the record
\* had when the batch arrived); a record no executed edit matched keeps its
\* stamp, and after a batch that was rolled back every record keeps its own.
C27_StampedWhenRun ==
  /\ [][(Len(items') \in ran' /\ items' # items) =>
          \A h \in DOMAIN work :
            work'[h].updated_at = IF Names(items'[Len(items')], h) THEN now
                                  ELSE work[h].updated_at]_vars
  /\ [](Committed200 =>
          \A h \in DOMAIN pre :
            /\ horses[h].updated_at = IF Touched(h) THEN work[h].updated_at
                                      ELSE pre[h].updated_at
            /\ horses[h].updated_at >= pre[h].updated_at
            /\ horses[h].updated_at <= now)
  /\ []((pc = "idle" /\ fault # "none") =>
          \A h \in DOMAIN pre : horses[h].updated_at = pre[h].updated_at)

\* C27 witness: a batch that ran at clock 1 and edited H1 alone has
\* committed: H1 is stamped 1, H2 still carries the stamp 0 it arrived with.
C27_Witness ==
  /\ Committed200 /\ Touched(H1) /\ ~Touched(H2)
  /\ pre[H1].updated_at = 0
  /\ horses[H1].updated_at = 1
  /\ horses[H2].updated_at = 0

(***************************************************************************)
(* Properties of the current_rating conversion.                            *)
(***************************************************************************)
\* what each rating value of RatingValues has to be stored as: its base-10
\* integer prefix when it has one that is not zero, and 0 otherwise
RatingTable ==
  { <<Str(<<"8", "5", "x">>), 85>>, <<Str(<<"a", "b", "c">>), 0>>, <<Str(<<>>), 0>>,
    <<Str(<<"0">>), 0>>, <<Str(<<"-", "1", "2">>), 0 - 12>>, <<Str(<<" ", "4", "2">>), 42>>,
    <<Str(<<"0", "0", "7">>), 7>>, <<Str(<<"x", "9">>), 0>>,
    <<Num(90), 90>>, <<Num(0), 0>>, <<Num(0 - 3), 0 - 3>> }

ExpectedRating(v) == (CHOOSE p \in RatingTable : p[1] = v)[2]

\* the positions of the edits whose current_rating is present and not null
Rated == {i \in 1..Len(items) : Present(items[i], "current_rating")}

\* C29: an edit with a horse_id and a present, non-null current_rating is
\* never skipped or refused: its statement is executed (unless the statement
\* itself faults) and writes an integer, the base-10 integer prefix of the
\* value when that is not zero and 0 in every other case (text that is no
\* number, the empty text, zero); the committed rating is the one of the last
\* such edit.
C29_RatingWrittenAsInteger ==
  /\ [][(Len(items') \in ran' /\ items' # items /\ Len(items') \in Rated') =>
          work'[H1].current_rating = ExpectedRating(items'[Len(items')].current_rating)]_vars
  /\ [](\A i \in Rated : i \in ran \/ (i = Len(items) /\ fault = "query"))
  /\ []((Committed200 /\ Rated # {}) =>
          /\ horses[H1].current_rating \in Int
          /\ horses[H1].current_rating = ExpectedRating(items[SetMax(Rated)].current_rating))

\* C29 witness: the batch <<"abc", "85x">> for H1 has committed; both
\* statements ran and the rating persisted is 85.
C29_Witness ==
  /\ Committed200 /\ Len(items) = 2 /\ ran = {1, 2}
  /\ items[1].current_rating = Str(<<"a", "b", "c">>)
  /\ items[2].current_rating = Str(<<"8", "5", "x">>)
  /\ work[H1].current_rating = 85
  /\ horses[H1].current_rating = 85

(***************************************************************************)
(* Properties of the stats operations as readers.                          *)
(***************************************************************************)
\* C26: the stats operations and the race lookup change nothing: across every
\* step of a stats request race_combo_scores, racecard_entries,
\* race_analysis_scores and racecard_races are what they were, and so is
\* horse_profiles, committed or inside a transaction; horse data is written
\* by the bulk update alone.
C26_StatsReadOnly ==
  [][/\ scores' = scores /\ entries' = entries
     /\ analysis' = analysis /\ races' = races
     /\ horses' = horses /\ work' = work]_vars

\* C26 witness: distance_stats has looked the race up, joined, and listed a
\* score row, and jockey or horse data is loaded in every table it read.
C26_Witness ==
  /\ Listed /\ sreq.op = "distance_stats"
  /\ squeries = <<"race", "join">>
  /\ Len(sresp.rows) > 0
  /\ scores # {} /\ entries # {} /\ races # {}

(***************************************************************************)
(* Properties of the jockey-distance aggregation.                          *)
(***************************************************************************)
\* the jockey-distance code of the requested race, spelled out
JockeyCode == <<"J", "O", "C", "K", "E", "Y", "_", "D", "I", "S", "T", "_", "S", "T", "_", "1", "2", "0", "0">>

\* the score rows that feed jockey j's row: the jockey-distance rows of the
\* race's code that belong to a horse j rides in an entry that is not scratched
Feeding(j) ==
  {rc \in scores :
     /\ rc.metric_code = JockeyCode
     /\ \E e \in entries :
          /\ e.jockey_zh = j
          /\ e.scratched \in {0, SqlNull}
          /\ e.horse_id = rc.horse_id}

\* m is the greatest element of S
Greatest(m, S) == m \in S /\ \A x \in S : x <= m

\* C21: in an answer of jockey_dist_stats for a race on the card, over 1200 metres, every
\* row belongs to a jockey with at least one feeding score row, and each of
\* its numeric columns is the maximum of that column over the feeding rows;
\* when those rows agree, the row is that one score.
C21_MaxOverRides ==
  (Listed /\ sreq.op = "jockey_dist_stats" /\ RaceKnown /\ races = {RaceRow(1200)}) =>
    /\ \A i \in 1..Len(sresp.rows) :
         LET F == Feeding(sresp.rows[i].jockey_zh)
         IN /\ F # {}
            /\ Greatest(sresp.rows[i].runs, {rc.runs : rc \in F})
            /\ Greatest(sresp.rows[i].win_cnt, {rc.win_cnt : rc \in F})
    /\ \A e \in entries :
         Feeding(e.jockey_zh) # {} =>
           \E i \in 1..Len(sresp.rows) : sresp.rows[i].jockey_zh = e.jockey_zh

\* C21 witness: J1 rides H1 (3 runs, 2 wins) and H2 (5 runs, 1 win); the row
\* of J1 shows 5 runs and 2 wins, the maxima of two different score rows.
C21_Witness ==
  /\ Listed /\ sreq.op = "jockey_dist_stats"
  /\ Cardinality(entries) = 2 /\ \A e \in entries : e.jockey_zh = J1 /\ e.scratched = 0
  /\ Cardinality(Feeding(J1)) = 2
  /\ Len(sresp.rows) = 1
  /\ sresp.rows[1].runs = 5
  /\ sresp.rows[1].win_cnt = 2

\* the card's row of the requested race has no distance
DistanceUnknown == \E r \in races : OfRace(r, sreq.q) /\ r.distance_m = SqlNull

\* C22 (as claimed): no metric code is built from a null distance: when the
\* card's row of the requested race has no distance, distance_stats and
\* jockey_dist_stats stop after the lookup; the score join is not run and no
\* code ending in "null" is answered.
C22_NullDistanceFailsFast ==
  (/\ sreq.op \in LookupOps
   /\ ~Lacks(sreq.q)
   /\ DistanceUnknown
   /\ sfault = "none"
   /\ sresp.status # 503) =>
    /\ squeries = <<"race">>
    /\ sresp.metric_code = <<>>

(***************************************************************************)
(* Properties of the horse_id match.                                       *)
(***************************************************************************)
\* a and b differ at most in letter case and in leading or trailing spaces
SameHorse(a, b) == FoldStr(TrimStr(a)) = FoldStr(TrimStr(b))

\* the codes of the score rows each family reads for race 1 at ST over 1200
FamilyCodes(op) ==
  CASE op = "weight_stats" -> {WEIGHT_A}
    [] op = "horse_stats" -> {WEIGHT_A}
    [] op = "draw_stats" -> {HORSE_DRAW_1_4}
    [] op = "distance_stats" -> {SpelledCode(1200)}
    [] op = "jockey_dist_stats" -> {JockeyCode}

\* the answer lists the score row rc for the entry e
ListsPair(e, rc) ==
  \E i \in 1..Len(sresp.rows) :
    IF sreq.op = "jockey_dist_stats"
    THEN sresp.rows[i].jockey_zh = e.jockey_zh /\ sresp.rows[i].runs = rc.runs
    ELSE sresp.rows[i].horse_no = e.horse_no /\ sresp.rows[i].metric_code = rc.metric_code

\* C23 (as claimed): in every stats family an entry and a score row of the
\* race whose horse_id differ only in letter case or in leading or trailing
\* spaces are joined as the same horse: the answer lists that score row for
\* that entry (for horse_stats, when the horse has its analysis row).
C23_SameHorseJoined ==
  (Listed /\ sreq.op # "none" /\ RaceKnown) =>
    \A e \in entries : \A rc \in scores :
      (/\ e.scratched = 0
       /\ rc.metric_code \in FamilyCodes(sreq.op)
       /\ SameHorse(e.horse_id, rc.horse_id)
       /\ sreq.op = "horse_stats" =>
            \E ra \in analysis : SameHorse(ra.horse_id, e.horse_id)) =>
        ListsPair(e, rc)

(***************************************************************************)
(* Properties of the global gate.                                          *)
(***************************************************************************)
\* the path is one of the four whitelisted ones, spelled out
Whitelisted(path) ==
  path \in {<<"/", "l", "o", "g", "i", "n">>,
            <<"/", "a", "p", "i", "/", "h", "e", "a", "l", "t", "h">>,
            <<"/", "s", "t", "y", "l", "e", "s", ".", "c", "s", "s">>,
            <<"/", "f", "a", "v", "i", "c", "o", "n", ".", "i", "c", "o">>}

\* the path begins with /flask
UnderFlask(path) ==
  Len(path) >= 6 /\ SubSeq(path, 1, 6) = <<"/", "f", "l", "a", "s", "k">>

\* C28: a request of a session without a logged-in user never ends in a
\* handler that queries storage, POST /login excepted; whenever its path is
\* neither whitelisted nor under /flask it is redirected to /login, the
\* routes registered without requireAuth (/api/race/horse_stats, /debug/db)
\* included; and POST /logout of a logged-in session leaves the session
\* without a user, so that its next requests are redirected again.
C28_GateBeforeStorage ==
  /\ []((hit.sid # 0 /\ hit.user = NoUser) =>
          /\ hit.storage => (hit.method = "POST" /\ hit.path = Paths.login)
          /\ (~Whitelisted(hit.path) /\ ~UnderFlask(hit.path)) =>
               (hit.ends = "redirect:/login" /\ ~hit.storage))
  /\ [][(hit' # hit /\ hit'.method = "POST" /\ hit'.path = Paths.logout /\ hit'.user # NoUser) =>
          sessions'[hit'.sid] = NoUser]_vars
  /\ [][(hit' # hit /\ ~(hit'.method = "POST" /\ hit'.path = Paths.login)) =>
          hit'.user = sessions[hit'.sid]]_vars

\* C28 witness: session 1 holds no user and its request for
\* /api/race/horse_stats, a route without requireAuth, is redirected, while
\* session 2 is logged in.
C28_Witness ==
  /\ hit.sid = 1 /\ hit.user = NoUser
  /\ hit.method = "GET" /\ hit.path = Paths.horse_stats
  /\ hit.ends = "redirect:/login"
  /\ sessions[1] = NoUser /\ sessions[2] # NoUser

(***************************************************************************)
(* Properties of batches that run side by side, and of the pool.           *)
(***************************************************************************)
\* the positions of the valid edits of request r that give record h a value for f
ConcWriters(r, h, f) ==
  {i \in 1..Len(reqs[r].items) :
     /\ ~Skippable(reqs[r].items[i])
     /\ Names(reqs[r].items[i], h)
     /\ Carries(reqs[r].items[i], f)}

\* the positions of the commit log whose batch gives record h a value for f
CommitsOf(h, f) == {k \in 1..Len(commitLog) : ConcWriters(commitLog[k], h, f) # {}}

\* the value the batch of request r leaves in column f of record h
Leaves(r, h, f) == Given(reqs[r].items[SetMax(ConcWriters(r, h, f))], f)

\* C25: under every interleaving of two batches the committed table is the
\* starting table with the batches that committed applied whole, in the
\* order of their commits: a column both batches edit holds the value of the
\* batch that committed last, and a batch that is still running or was
\* rolled back has left nothing; a batch answers 200 exactly when its commit
\* is on record.
C25_LastCommitterWins ==
  /\ \A h \in DOMAIN horses : \A f \in Whitelist :
       horses[h][f] = IF CommitsOf(h, f) = {} THEN HorsesInit[h][f]
                      ELSE Leaves(commitLog[SetMax(CommitsOf(h, f))], h, f)
  /\ \A r \in ReqIds :
       /\ reqs[r].status = 200 <=> \E k \in 1..Len(commitLog) : commitLog[k] = r
       /\ reqs[r].status = 500 => reqs[r].fault # "none"

\* C25 witness: request 1 edited H2 and then H1 (owner A), request 2 edited
\* H1 (owner B); both committed, request 2 first: H1 is owned by A, H2 by B.
C25_Witness ==
  /\ commitLog = <<2, 1>>
  /\ reqs[1].status = 200 /\ reqs[2].status = 200
  /\ Len(reqs[1].items) = 2
  /\ reqs[1].items[1].horse_id = Str(H2)
  /\ reqs[1].items[2].horse_id = Str(H1) /\ reqs[1].items[2].owner = Str(<<"A">>)
  /\ Len(reqs[2].items) = 1
  /\ reqs[2].items[1].horse_id = Str(H1) /\ reqs[2].items[1].owner = Str(<<"B">>)
  /\ horses[H1].owner = <<"A">>
  /\ horses[H2].owner = <<"B">>

\* the requests that hold a connection of the pool
Holders == {r \in ReqIds : reqs[r].conn = "held"}

\* C30 (as claimed): at most ConnectionLimit connections are checked out,
\* every connection that is checked out is held by a request still in flight
\* (no request that has answered keeps one, so faulting requests cannot
\* shrink the pool), and a request never waits while no request in flight
\* holds a connection that will come back.
C30_PoolNeverShrinks ==
  /\ out <= ConnectionLimit
  /\ out = Cardinality(Holders)
  /\ \A r \in ReqIds : reqs[r].pc = "waiting" => Holders # {}

====
